---- MODULE Spec2Model ----
(***************************************************************************)
(* Model of the Qualys IaC scanner task.                                   *)
(*                                                                         *)
(*   Spec        one run of main.run_scan_workflow: template discovery,    *)
(*               archive creation, client construction, upload, the poll   *)
(*               loop of QualysApiClient.poll_scan_results, the SARIF      *)
(*               fetch, result persistence, the except clauses and the     *)
(*               finally clause.                                           *)
(*   ParserSpec  one run of resultParser.main on an input file.            *)
(*                                                                         *)
(* Time is counted in whole seconds elapsed since poll_scan_results took   *)
(* start_time.  A status request lasts 0..MaxDur seconds; time.sleep lasts *)
(* the configured interval.                                                *)
(***************************************************************************)
EXTENDS Integers, Sequences, FiniteSets, TLC

\* ------------------------------------------------------------------ bounds
MaxTimeout == 3      \* largest configured poll_timeout
MaxDur == 1          \* longest status request, in seconds
MaxChecks == 4       \* cap on status checks (only a loop whose clock stands still reaches it)
MaxEntries == 2      \* longest "result" array of an input payload
MaxFailedChecks == 2 \* longest "failedChecks" list of an entry

\* ------------------------------------------------------------- characters
UpperAlpha == <<"A","B","C","D","E","F","G","H","I","J","K","L","M",
                "N","O","P","Q","R","S","T","U","V","W","X","Y","Z">>
LowerAlpha == <<"a","b","c","d","e","f","g","h","i","j","k","l","m",
                "n","o","p","q","r","s","t","u","v","w","x","y","z">>

\* str.lower() on one character
LowerChar(c) ==
    IF \E i \in 1..Len(UpperAlpha) : UpperAlpha[i] = c
    THEN LowerAlpha[CHOOSE i \in 1..Len(UpperAlpha) : UpperAlpha[i] = c]
    ELSE c

\* str.lower()
Lower(s) == [i \in 1..Len(s) |-> LowerChar(s[i])]

\* PurePath.suffix: the name from its last dot on, when that dot is neither
\* the first nor the last character; otherwise empty.
Suffix(name) ==
    LET dots == {i \in 1..Len(name) : name[i] = "."}
    IN IF dots = {} THEN <<>>
       ELSE LET i == CHOOSE d \in dots : \A e \in dots : e <= d
            IN IF i > 1 /\ i < Len(name) THEN SubSeq(name, i, Len(name)) ELSE <<>>

\* re.search of a literal token, case-insensitively
ContainsCaseSensitive(name, token) ==
    \E i \in 1..(Len(name) - Len(token) + 1) :
        SubSeq(name, i, i + Len(token) - 1) = token
Contains(name, token) ==
    \E i \in 1..(Len(name) - Len(token) + 1) :
        Lower(SubSeq(name, i, i + Len(token) - 1)) = token

SUPPORTED_EXTENSIONS ==
    { <<".","t","f">>, <<".","j","s","o","n">>, <<".","y","a","m","l">>,
      <<".","y","m","l">>, <<".","t","e","m","p","l","a","t","e">> }

IAC_REGEX ==
    { <<"m","a","i","n">>, <<"i","n","f","r","a">>,
      <<"t","e","m","p","l","a","t","e">>,
      <<"c","l","o","u","d","f","o","r","m","a","t","i","o","n">>,
      <<"t","e","r","r","a","f","o","r","m">>, <<"c","d","k">>,
      <<"s","t","a","c","k">> }

is_likely_iac_file(name) == \E token \in IAC_REGEX : Contains(name, token)

\* the list comprehension of find_iac_templates
SelectTemplates(files) ==
    {f \in files : Lower(Suffix(f)) \in SUPPORTED_EXTENSIONS /\ is_likely_iac_file(f)}

\* ------------------------------------------------------- the environment
MainTf == <<"m","a","i","n",".","t","f">>
ReadmeMd == <<"r","e","a","d","m","e",".","m","d">>
OutputJson == <<"o","u","t","p","u","t",".","j","s","o","n">>
InfraYaml == <<"I","n","f","r","a",".","Y","A","M","L">>
MainTfUpper == <<"M","A","I","N",".","T","F">>
TerraformTxt == <<"t","e","r","r","a","f","o","r","m",".","t","x","t">>
AppTemplate == <<"a","p","p",".","t","e","m","p","l","a","t","e">>
TemplateNoExt == <<"t","e","m","p","l","a","t","e">>
VarsTf == <<"v","a","r","s",".","t","f">>
DomainTf == <<"d","o","m","a","i","n",".","t","f">>
CdkYml == <<"c","d","k",".","y","m","l">>
MainTfBak == <<"m","a","i","n",".","t","f",".","b","a","k">>
CloudFormationJson == <<"C","l","o","u","d","F","o","r","m","a","t","i","o","n",
                        ".","J","S","O","N">>

\* directories the run may be pointed at: a missing one, and existing ones
Dirs ==
    { [exists |-> FALSE, files |-> {}],
      [exists |-> TRUE, files |-> {}],
      [exists |-> TRUE, files |-> {ReadmeMd, OutputJson}],
      [exists |-> TRUE, files |-> {MainTf, ReadmeMd, OutputJson}],
      [exists |-> TRUE, files |-> {MainTf, InfraYaml}],
      [exists |-> TRUE,
       files |-> {MainTfUpper, TerraformTxt, AppTemplate, TemplateNoExt, VarsTf}],
      [exists |-> TRUE, files |-> {DomainTf, CdkYml, MainTfBak, CloudFormationJson}] }

\* config.qualys_custom_ca_bundle: unset (None), the empty string, a path that
\* is no file, a file that is no PEM bundle, a valid bundle
CaBundles == {"unset", "empty", "missing", "malformed", "valid"}

Intervals == {-1, 0, 1, 2}
Timeouts == 0..MaxTimeout

NoData == [status |-> "none", body |-> "none"]

\* JSON bodies a 2xx status response may carry ("absent": no status field)
OkData ==
    { [status |-> "FINISHED", body |-> "b1"], [status |-> "FINISHED", body |-> "b2"],
      [status |-> "RUNNING", body |-> "b1"], [status |-> "ERROR", body |-> "b2"],
      [status |-> "absent", body |-> "b1"] }

\* what the status source may answer to one GET
PollResponses ==
    {[kind |-> "ok", data |-> d] : d \in OkData}
    \cup {[kind |-> "network_failure", data |-> NoData],
          [kind |-> "http_error", data |-> NoData]}

NoResponse == [kind |-> "none", data |-> NoData]

\* --------------------------------------------------------------- state
VARIABLES
    pc,               \* position in run_scan_workflow
    template_dir,     \* the directory config.iac_template_dir names
    template_files,   \* find_iac_templates' result
    zip_file_path,    \* "none" until assigned, then "set"
    zip_file,         \* the archive on disk: "absent", "partial", "complete"
    zip_entries,      \* the entries written to the archive
    custom_ca_bundle, \* config.qualys_custom_ca_bundle
    session_ca,       \* trust store of the client's session: "none", "default", "custom"
    scan_uuid,        \* "none" or the identifier the upload returned
    interval,         \* config.poll_interval
    timeout,          \* config.poll_timeout
    elapsed,          \* time.time() - start_time
    poll_state,       \* "Idle", "Polling", "Finished", "TimedOut", "Failed"; "SleepError"
                      \* when time.sleep raised
    checks,           \* status GETs issued by the poll loop
    nonterminal,      \* status responses that sent the loop to sleep
    last_response,    \* the latest answer of the status source
    late_check,       \* TRUE once a GET was issued with elapsed >= timeout
    results,          \* value returned by poll_scan_results
    results_json,     \* results.json on disk
    results_sarif,    \* results.sarif on disk
    error,            \* exception in flight or handled: "none" or its class
    exit_code,        \* -1 while running, then the process's exit status
    stages,           \* stages completed by the run, in order
    upload_call,      \* the upload POST: its answer, and the archive it sent
    sarif_call,       \* the SARIF GET: requests issued, text received, what
                      \* get_sarif_results returned, who wrote results.sarif
    \* ---- resultParser
    p_pc,             \* position in resultParser.main
    input_file,       \* the file args.file_path names
    scan_data,        \* load_scan_data's result
    failure_generator,\* what extract_failures' generator yields, and how it ends
    lines,            \* lines printed to stdout by report_failures
    consumed,         \* failure records report_failures took from the generator
    has_failures,     \* report_failures' local
    raised,           \* exception that escaped main: "none" or its class
    parser_exit       \* -1 while running, then the exit status

wfVars == <<pc, template_dir, template_files, zip_file_path, zip_file, zip_entries,
            custom_ca_bundle, session_ca, scan_uuid, interval, timeout, elapsed,
            poll_state, checks, nonterminal, last_response, late_check, results,
            results_json, results_sarif, error, exit_code, stages, upload_call,
            sarif_call>>

parserVars == <<p_pc, input_file, scan_data, failure_generator, lines, consumed, has_failures, raised,
                parser_exit>>

vars == <<wfVars, parserVars>>


\* ------------------------------------------------ resultParser: the data
\* FIELD_MAPPING, in its insertion order
FieldKeys == <<"filePath", "checkId", "checkName", "criticality", "remediation">>
KeySet == {FieldKeys[i] : i \in 1..Len(FieldKeys)}
FIELD_MAPPING ==
    [k \in KeySet |->
        CASE k = "filePath" -> "File Name"
          [] k = "checkId" -> "Qualys CID"
          [] k = "checkName" -> "Control Name"
          [] k = "criticality" -> "Criticality"
          [] k = "remediation" -> "Remediation"]

\* a value each field of a check may carry when it is present and non-empty
SampleValue ==
    [k \in KeySet |->
        CASE k = "filePath" -> "main.tf"
          [] k = "checkId" -> "CID-1"
          [] k = "checkName" -> "Encrypt bucket"
          [] k = "criticality" -> "HIGH"
          [] k = "remediation" -> "Enable SSE"]

\* An element of failedChecks: a JSON object whose fields are each absent
\* ("absent"), the empty string ("") or a value; or a non-object ("other").
DictCheck(present, empty) ==
    [kind |-> "dict",
     fields |-> [k \in KeySet |-> IF k \in present THEN SampleValue[k]
                                  ELSE IF k \in empty THEN "" ELSE "absent"]]
AllChecks == {DictCheck(P, E) : P \in SUBSET KeySet, E \in SUBSET KeySet}
OtherCheck == [kind |-> "other", fields |-> [k \in KeySet |-> "absent"]]
CheckA == DictCheck({"checkId", "criticality"}, {})
CheckB == DictCheck(KeySet, {})

RECURSIVE SeqsUpTo(_, _)
\* the sequences over S of length at most n
SeqsUpTo(S, n) ==
    IF n = 0 THEN {<<>>}
    ELSE LET shorter == SeqsUpTo(S, n - 1)
         IN shorter \cup {Append(q, x) : q \in shorter, x \in S}

\* an optional list-valued field ("parsingErrors", "failedChecks", "result")
Absent == [present |-> FALSE, items |-> <<>>]
List(items) == [present |-> TRUE, items |-> items]

\* An element of the "result" array: a JSON object whose "results" is absent,
\* an object, or something else (null, a string, a list); or a non-object.
Entry(pe, fc) ==
    [kind |-> "dict", results |-> "dict", parsingErrors |-> pe, failedChecks |-> fc]
OtherEntry ==
    [kind |-> "other", results |-> "absent", parsingErrors |-> Absent, failedChecks |-> Absent]
NoResultsEntry ==
    [kind |-> "dict", results |-> "absent", parsingErrors |-> Absent, failedChecks |-> Absent]
BadResultsEntry ==
    [kind |-> "dict", results |-> "nondict", parsingErrors |-> Absent, failedChecks |-> Absent]

ParsingErrorLists ==
    {Absent, List(<<>>), List(<<"a.tf">>), List(<<"a.tf", "b.yaml">>)}
FailedCheckLists ==
    {Absent} \cup {List(q) : q \in SeqsUpTo({CheckA, CheckB, OtherCheck}, MaxFailedChecks)}

\* entries of single-entry payloads, and the smaller set longer payloads draw from
RichEntries ==
    {Entry(pe, fc) : pe \in ParsingErrorLists, fc \in FailedCheckLists}
    \cup {Entry(Absent, List(<<c>>)) : c \in AllChecks}
    \cup {OtherEntry, NoResultsEntry, BadResultsEntry}
CoreEntries ==
    { OtherEntry, NoResultsEntry, BadResultsEntry,
      Entry(List(<<"a.tf">>), Absent),
      Entry(Absent, List(<<CheckA, CheckB>>)),
      Entry(List(<<"a.tf", "b.yaml">>), List(<<CheckB>>)),
      Entry(List(<<>>), List(<<CheckA, OtherCheck>>)) }

ResultArrays ==
    SeqsUpTo(CoreEntries, MaxEntries) \cup {<<e>> : e \in RichEntries}

\* The value json.loads returns: an object with optional "status" and
\* "result", or null, or a list ("nonempty" tells [] from [1]).
JsonDict(status, result) ==
    [kind |-> "dict", status |-> status, result |-> result, nonempty |-> FALSE]
JsonNull == [kind |-> "null", status |-> "absent", result |-> Absent, nonempty |-> FALSE]
JsonList(nonempty) ==
    [kind |-> "list", status |-> "absent", result |-> Absent, nonempty |-> nonempty]
NoJson == JsonNull

SmallArrays == {<<>>, <<Entry(Absent, List(<<CheckA>>))>>, <<BadResultsEntry>>}

JsonValues ==
    {JsonDict("FINISHED", List(a)) : a \in ResultArrays}
    \cup {JsonDict(st, r) : st \in {"FINISHED", "RUNNING", "absent"},
                            r \in {Absent} \cup {List(a) : a \in SmallArrays}}
    \cup {JsonNull, JsonList(FALSE), JsonList(TRUE)}

\* The file args.file_path names.  A readable file holds optional log text,
\* then optionally JSON_PREAMBLE, then a body that is JSON text or not.
File(state, log, preamble, wellformed, value) ==
    [state |-> state, log |-> log, preamble |-> preamble,
     wellformed |-> wellformed, value |-> value]
NoInput == File("missing", FALSE, FALSE, FALSE, NoJson)

InputFiles ==
    {File("text", FALSE, FALSE, TRUE, v) : v \in JsonValues}
    \cup {File("text", log, pre, TRUE, JsonDict(st, List(a))) :
            log \in BOOLEAN, pre \in BOOLEAN, st \in {"FINISHED", "RUNNING"},
            a \in SmallArrays}
    \cup {File("text", log, pre, FALSE, NoJson) : log \in BOOLEAN, pre \in BOOLEAN}
    \cup {File(st, FALSE, FALSE, FALSE, NoJson) : st \in {"missing", "unreadable"}}

\* ------------------------------------------------ run_scan_workflow (Spec)
SarifTexts == {"sarif1", "sarif2"}

NoResultsFile == [state |-> "absent", data |-> NoData]

\* before initiate_scan has posted anything
NoUpload == [response |-> "none", archive |-> "none", entries |-> {}]

\* before get_sarif_results was called
NoSarifCall == [fetches |-> 0, text |-> "none", returned |-> "none", writer |-> "none"]

ParserIdle ==
    /\ p_pc = "idle"
    /\ lines = <<>>
    /\ consumed = 0
    /\ has_failures = FALSE
    /\ raised = "none"
    /\ parser_exit = -1

Init ==
    /\ pc = "locate"
    /\ template_dir \in Dirs
    /\ template_files = {}
    /\ zip_file_path = "none"
    /\ zip_file = "absent"
    /\ zip_entries = {}
    /\ custom_ca_bundle \in CaBundles
    /\ session_ca = "none"
    /\ scan_uuid = "none"
    /\ interval \in Intervals
    /\ timeout \in Timeouts
    /\ elapsed = 0
    /\ poll_state = "Idle"
    /\ checks = 0
    /\ nonterminal = 0
    /\ last_response = NoResponse
    /\ late_check = FALSE
    /\ results = NoData
    /\ results_json = NoResultsFile
    /\ results_sarif = "absent"
    /\ error = "none"
    /\ exit_code = -1
    /\ stages = <<>>
    /\ upload_call = NoUpload
    /\ sarif_call = NoSarifCall
    /\ ParserIdle
    /\ input_file = NoInput
    /\ scan_data = [ok |-> FALSE, value |-> NoJson]
    /\ failure_generator = [records |-> <<>>, raised |-> "none"]

\* an exception raised inside the try block of run_scan_workflow
Raise(e) ==
    /\ error' = e
    /\ pc' = "except"

\* where run_scan_workflow goes with the list find_iac_templates returned:
\* `if not iac_files: ... return` leaves the try block for the finally clause
AfterLocateAlwaysArchive(files) == "archive"
AfterLocate(files) == IF files = {} THEN "finally" ELSE "archive"

\* step 1: find_iac_templates, and the early return on an empty list
find_iac_templates ==
    /\ pc = "locate"
    /\ IF ~template_dir.exists
       THEN /\ Raise("FileNotFoundError")
            /\ UNCHANGED <<template_files, stages>>
       ELSE /\ template_files' = SelectTemplates(template_dir.files)
            /\ stages' = Append(stages, "locate")
            /\ pc' = AfterLocate(template_files')
            /\ error' = error
    /\ UNCHANGED <<template_dir, zip_file_path, zip_file, zip_entries, custom_ca_bundle,
                   session_ca, scan_uuid, interval, timeout, elapsed, poll_state, checks,
                   nonterminal, last_response, late_check, results, results_json,
                   results_sarif, exit_code>>
    /\ UNCHANGED <<upload_call, sarif_call>>
    /\ UNCHANGED parserVars

\* the except clause of create_zip_archive: log the failure, re-raise it
ArchiveErrorSwallowed ==
    /\ pc' = "client"
    /\ error' = error
ArchiveError == Raise("OSError")

\* step 2: zip_file_path is assigned, then create_zip_archive writes the
\* archive; the ZipFile context manager closes the file on every outcome.
create_zip_archive ==
    /\ pc = "archive"
    /\ zip_file_path' = "set"
    /\ \E outcome \in {"ok", "open_fails", "write_fails", "interrupted"} :
         CASE outcome = "ok" ->
                /\ zip_file' = "complete"
                /\ zip_entries' = template_files
                /\ stages' = Append(stages, "archive")
                /\ pc' = "client"
                /\ UNCHANGED <<error, exit_code>>
           [] outcome = "open_fails" ->
                /\ ArchiveError
                /\ UNCHANGED <<zip_file, zip_entries, stages, exit_code>>
           [] outcome = "write_fails" ->
                /\ zip_file' = "partial"
                /\ \E written \in SUBSET template_files :
                      /\ written # template_files
                      /\ zip_entries' = written
                /\ ArchiveError
                /\ UNCHANGED <<stages, exit_code>>
           [] outcome = "interrupted" ->
                /\ zip_file' = "partial"
                /\ zip_entries' = {}
                /\ error' = "KeyboardInterrupt"
                /\ exit_code' = 1
                /\ pc' = "finally"
                /\ UNCHANGED stages
    /\ UNCHANGED <<template_dir, template_files, custom_ca_bundle, session_ca, scan_uuid,
                   interval, timeout, elapsed, poll_state, checks, nonterminal,
                   last_response, late_check, results, results_json, results_sarif>>
    /\ UNCHANGED <<upload_call, sarif_call>>
    /\ UNCHANGED parserVars

\* _configure_ssl: the trust store the session ends up with, or the exception
\* raised.  `if not custom_ca_bundle` returns early (default store) for None
\* and for the empty string; a path that is no file raises FileNotFoundError;
\* ssl.create_default_context(cafile=...) raises ssl.SSLError on a file that
\* holds no certificate.
TrustStoreLenient(bundle) ==
    CASE bundle \in {"unset", "empty", "missing"} -> "default"
      [] bundle = "malformed" -> "SSLError"
      [] bundle = "valid" -> "custom"
TrustStore(bundle) ==
    CASE bundle \in {"unset", "empty"} -> "default"
      [] bundle = "missing" -> "FileNotFoundError"
      [] bundle = "malformed" -> "SSLError"
      [] bundle = "valid" -> "custom"

\* step 3: QualysApiClient.__init__ and _configure_ssl
configure_ssl ==
    /\ pc = "client"
    /\ LET store == TrustStore(custom_ca_bundle)
       IN IF store \in {"default", "custom"}
          THEN /\ session_ca' = store
               /\ pc' = "upload"
               /\ error' = error
          ELSE /\ Raise(store)
               /\ session_ca' = session_ca
    /\ UNCHANGED <<template_dir, template_files, zip_file_path, zip_file, zip_entries,
                   custom_ca_bundle, scan_uuid, interval, timeout, elapsed, poll_state,
                   checks, nonterminal, last_response, late_check, results, results_json,
                   results_sarif, exit_code, stages>>
    /\ UNCHANGED <<upload_call, sarif_call>>
    /\ UNCHANGED parserVars

\* answers the upload POST may get: 2xx with a scanUuid, 2xx with "scanUuid": "",
\* 2xx without the field, a non-2xx status, no answer at all
UploadResponses == {"uuid", "empty_uuid", "no_uuid", "http_error", "network_failure"}

\* response_data.get("scanUuid")
ScanUuidOf(response) ==
    CASE response = "uuid" -> "uuid1"
      [] response = "empty_uuid" -> ""
      [] OTHER -> "none"

\* the test `if not scan_uuid` of initiate_scan, negated
HasScanUuidNotNone(response) == ScanUuidOf(response) # "none"
HasScanUuid(response) == ScanUuidOf(response) \notin {"none", ""}

\* step 4: initiate_scan posts the archive at zip_file_path
initiate_scan ==
    /\ pc = "upload"
    /\ \E response \in UploadResponses :
         /\ upload_call' = [response |-> response, archive |-> zip_file,
                            entries |-> zip_entries]
         /\ IF response \in {"http_error", "network_failure"}
            THEN /\ Raise("RequestException")
                 /\ UNCHANGED <<scan_uuid, stages>>
            ELSE IF HasScanUuid(response)
            THEN /\ scan_uuid' = ScanUuidOf(response)
                 /\ stages' = Append(stages, "upload")
                 /\ pc' = "poll_enter"
                 /\ error' = error
            ELSE /\ Raise("ValueError")
                 /\ UNCHANGED <<scan_uuid, stages>>
    /\ UNCHANGED <<template_dir, template_files, zip_file_path, zip_file, zip_entries,
                   custom_ca_bundle, session_ca, interval, timeout, elapsed, poll_state,
                   checks, nonterminal, last_response, late_check, results, results_json,
                   results_sarif, exit_code, sarif_call>>
    /\ UNCHANGED parserVars

\* step 5, entry of poll_scan_results: start_time = time.time()
poll_scan_results_enter ==
    /\ pc = "poll_enter"
    /\ elapsed' = 0
    /\ poll_state' = "Polling"
    /\ pc' = "poll"
    /\ UNCHANGED <<template_dir, template_files, zip_file_path, zip_file, zip_entries,
                   custom_ca_bundle, session_ca, scan_uuid, interval, timeout, checks,
                   nonterminal, last_response, late_check, results, results_json,
                   results_sarif, error, exit_code, stages>>
    /\ UNCHANGED <<upload_call, sarif_call>>
    /\ UNCHANGED parserVars

\* the while condition of poll_scan_results
LoopGuardLate == elapsed <= timeout
LoopGuard == elapsed < timeout

\* what the loop does with a response that is neither FINISHED nor a failure
SleepNoWait(d) ==
    /\ nonterminal' = nonterminal + 1
    /\ elapsed' = elapsed
    /\ UNCHANGED <<poll_state, pc, error, results, stages>>
Sleep(d) ==
    /\ nonterminal' = nonterminal + 1
    /\ IF interval < 0
       THEN \* time.sleep raises ValueError on a negative length
            /\ poll_state' = "SleepError"
            /\ elapsed' = elapsed + d
            /\ Raise("ValueError")
       ELSE /\ elapsed' = elapsed + d + interval
            /\ UNCHANGED <<poll_state, pc, error>>
    /\ UNCHANGED <<results, stages>>

\* a failed GET (network failure, or raise_for_status on a non-2xx answer)
RequestFailedRetry(d) ==
    /\ elapsed' = elapsed + d + (IF interval < 0 THEN 0 ELSE interval)
    /\ UNCHANGED <<poll_state, pc, error, nonterminal, results, stages>>
RequestFailed(d) ==
    /\ poll_state' = "Failed"
    /\ elapsed' = elapsed + d
    /\ Raise("RequestException")
    /\ UNCHANGED <<nonterminal, results, stages>>

\* what run_scan_workflow calls once poll_scan_results has returned
AfterPollSaveFirst == "persist"
AfterPoll == "sarif"

\* the branch taken on status == "FINISHED"
ReturnStale(r, d) ==
    /\ poll_state' = "Finished"
    /\ results' = IF checks = 0 THEN r.data ELSE last_response.data
    /\ elapsed' = elapsed + d
    /\ stages' = Append(stages, "poll")
    /\ pc' = AfterPoll
    /\ UNCHANGED <<nonterminal, error>>
ReturnData(r, d) ==
    /\ poll_state' = "Finished"
    /\ results' = r.data
    /\ elapsed' = elapsed + d
    /\ stages' = Append(stages, "poll")
    /\ pc' = AfterPoll
    /\ UNCHANGED <<nonterminal, error>>

\* the test `status == "FINISHED"` on data.get("status", "UNKNOWN")
IsTerminalOrError(data) == data.status \in {"FINISHED", "ERROR"}
IsTerminal(data) == data.status = "FINISHED"

\* one evaluation of the while condition and, when it holds, one pass of the
\* loop body: GET, raise_for_status, json, the status test, sleep
poll_iteration ==
    /\ pc = "poll"
    /\ poll_state = "Polling"
    /\ IF ~LoopGuard
       THEN /\ poll_state' = "TimedOut"
            /\ Raise("TimeoutError")
            /\ UNCHANGED <<elapsed, checks, nonterminal, last_response, late_check,
                           results, stages>>
       ELSE /\ checks < MaxChecks
            /\ \E r \in PollResponses, d \in 0..MaxDur :
                 /\ checks' = checks + 1
                 /\ last_response' = r
                 /\ late_check' = (late_check \/ elapsed >= timeout)
                 /\ IF r.kind # "ok" THEN RequestFailed(d)
                    ELSE IF IsTerminal(r.data) THEN ReturnData(r, d)
                    ELSE Sleep(d)
    /\ UNCHANGED <<template_dir, template_files, zip_file_path, zip_file, zip_entries,
                   custom_ca_bundle, session_ca, scan_uuid, interval, timeout,
                   results_json, results_sarif, exit_code>>
    /\ UNCHANGED <<upload_call, sarif_call>>
    /\ UNCHANGED parserVars

\* what get_sarif_results leaves in results.sarif: Path.write_text(response.text)
SarifWrittenNothing(text) == "absent"
SarifWritten(text) == text

\* step 7: get_sarif_results fetches the SARIF text, writes it to
\* results.sarif itself and returns None
get_sarif_results ==
    /\ pc = "sarif"
    /\ \E outcome \in {"ok", "http_error", "network_failure", "write_fails"} :
         CASE outcome = "ok" ->
                /\ \E text \in SarifTexts :
                      /\ results_sarif' = SarifWritten(text)
                      /\ sarif_call' = [fetches |-> sarif_call.fetches + 1,
                                        text |-> text, returned |-> "None",
                                        writer |-> "get_sarif_results"]
                /\ stages' = stages \o <<"fetch", "persist_sarif">>
                /\ pc' = "persist"
                /\ error' = error
           [] outcome = "write_fails" ->
                /\ \E text \in SarifTexts :
                      sarif_call' = [sarif_call EXCEPT !.fetches = @ + 1, !.text = text]
                /\ stages' = Append(stages, "fetch")
                /\ Raise("OSError")
                /\ UNCHANGED results_sarif
           [] OTHER ->
                /\ sarif_call' = [sarif_call EXCEPT !.fetches = @ + 1]
                /\ Raise("RequestException")
                /\ UNCHANGED <<results_sarif, stages>>
    /\ UNCHANGED <<template_dir, template_files, zip_file_path, zip_file, zip_entries,
                   custom_ca_bundle, session_ca, scan_uuid, interval, timeout, elapsed,
                   poll_state, checks, nonterminal, last_response, late_check, results,
                   results_json, exit_code, upload_call>>
    /\ UNCHANGED parserVars

\* the object json.dump writes to results.json
DumpedNoData == NoData
DumpedData == results

\* step 6: open results.json for writing and json.dump the poll's results
save_results ==
    /\ pc = "persist"
    /\ \E outcome \in {"ok", "open_fails", "write_fails"} :
         CASE outcome = "ok" ->
                /\ results_json' = [state |-> "written", data |-> DumpedData]
                /\ stages' = Append(stages, "persist_json")
                /\ pc' = "finally"
                /\ error' = error
           [] outcome = "open_fails" ->
                /\ Raise("OSError")
                /\ UNCHANGED <<results_json, stages>>
           [] outcome = "write_fails" ->
                /\ results_json' = [state |-> "partial", data |-> NoData]
                /\ Raise("OSError")
                /\ UNCHANGED stages
    /\ UNCHANGED <<template_dir, template_files, zip_file_path, zip_file, zip_entries,
                   custom_ca_bundle, session_ca, scan_uuid, interval, timeout, elapsed,
                   poll_state, checks, nonterminal, last_response, late_check, results,
                   results_sarif, exit_code>>
    /\ UNCHANGED <<upload_call, sarif_call>>
    /\ UNCHANGED parserVars

\* both except clauses: log the error, sys.exit(1)
except_clause_log_only ==
    /\ pc = "except"
    /\ pc' = "finally"
    /\ UNCHANGED <<template_dir, template_files, zip_file_path, zip_file, zip_entries,
                   custom_ca_bundle, session_ca, scan_uuid, interval, timeout, elapsed,
                   poll_state, checks, nonterminal, last_response, late_check, results,
                   results_json, results_sarif, error, exit_code, stages>>
    /\ UNCHANGED <<upload_call, sarif_call>>
    /\ UNCHANGED parserVars
except_clause ==
    /\ pc = "except"
    /\ exit_code' = 1
    /\ pc' = "finally"
    /\ UNCHANGED <<template_dir, template_files, zip_file_path, zip_file, zip_entries,
                   custom_ca_bundle, session_ca, scan_uuid, interval, timeout, elapsed,
                   poll_state, checks, nonterminal, last_response, late_check, results,
                   results_json, results_sarif, error, stages>>
    /\ UNCHANGED <<upload_call, sarif_call>>
    /\ UNCHANGED parserVars

\* an exception no except clause catches (KeyboardInterrupt) between two steps
keyboard_interrupt ==
    /\ pc \in {"client", "upload", "poll_enter", "poll", "sarif", "persist"}
    /\ error' = "KeyboardInterrupt"
    /\ exit_code' = 1
    /\ pc' = "finally"
    /\ UNCHANGED <<template_dir, template_files, zip_file_path, zip_file, zip_entries,
                   custom_ca_bundle, session_ca, scan_uuid, interval, timeout, elapsed,
                   poll_state, checks, nonterminal, last_response, late_check, results,
                   results_json, results_sarif, stages>>
    /\ UNCHANGED <<upload_call, sarif_call>>
    /\ UNCHANGED parserVars

\* the removal guarded by the finally clause
CleanupOnSuccessOnly ==
    IF zip_file_path = "set" /\ zip_file # "absent" /\ error = "none"
    THEN "absent" ELSE zip_file
Cleanup ==
    IF zip_file_path = "set" /\ zip_file # "absent" THEN "absent" ELSE zip_file

\* the finally clause, after which the process ends: 0 on a normal return,
\* non-zero when SystemExit or an uncaught exception is in flight
finally_clause ==
    /\ pc = "finally"
    /\ zip_file' = Cleanup
    /\ stages' = Append(stages, "cleanup")
    /\ exit_code' = IF exit_code = 1 THEN 1 ELSE 0
    /\ pc' = "done"
    /\ UNCHANGED <<template_dir, template_files, zip_file_path, zip_entries,
                   custom_ca_bundle, session_ca, scan_uuid, interval, timeout, elapsed,
                   poll_state, checks, nonterminal, last_response, late_check, results,
                   results_json, results_sarif, error>>
    /\ UNCHANGED <<upload_call, sarif_call>>
    /\ UNCHANGED parserVars

Next ==
    \/ find_iac_templates
    \/ create_zip_archive
    \/ configure_ssl
    \/ initiate_scan
    \/ poll_scan_results_enter
    \/ poll_iteration
    \/ get_sarif_results
    \/ save_results
    \/ except_clause
    \/ keyboard_interrupt
    \/ finally_clause

Spec == Init /\ [][Next]_vars

\* The same run under the scheduling of a sequential program whose status
\* requests return: once poll_scan_results is called it starts, and while the
\* loop is Polling its next evaluation of the while condition, and the pass
\* of the body that follows, does happen.
LiveSpec ==
    /\ Init
    /\ [][Next]_vars
    /\ WF_vars(poll_scan_results_enter)
    /\ WF_vars(poll_iteration)


\* ------------------------------------------- resultParser.main (ParserSpec)
NoCheck == OtherCheck

\* the records extract_failures yields
ParsingErrorRecord(paths) == [type |-> "parsing_error", paths |-> paths, check |-> NoCheck]
FailedCheckRecord(c) == [type |-> "failed_check", paths |-> <<>>, check |-> c]

\* load_scan_data: None (ok = FALSE) when the file cannot be opened or read,
\* or when the text after the preamble (the whole text when there is no
\* preamble) is not JSON
load_scan_data(file) ==
    IF file.state # "text" THEN [ok |-> FALSE, value |-> NoJson]
    ELSE IF ~file.preamble /\ file.log THEN [ok |-> FALSE, value |-> NoJson]
    ELSE IF ~file.wellformed THEN [ok |-> FALSE, value |-> NoJson]
    ELSE [ok |-> TRUE, value |-> file.value]

\* bool(scan_data)
Truthy(data) ==
    /\ data.ok
    /\ CASE data.value.kind = "null" -> FALSE
         [] data.value.kind = "list" -> data.value.nonempty
         [] data.value.kind = "dict" ->
                data.value.status # "absent" \/ data.value.result.present

\* the records one well-typed entry contributes: the parsing-error record
\* first, then the failed checks in list order
EntryRecordsChecksFirst(e) ==
    [i \in 1..Len(e.failedChecks.items) |-> FailedCheckRecord(e.failedChecks.items[i])]
    \o (IF e.parsingErrors.items # <<>>
        THEN <<ParsingErrorRecord(e.parsingErrors.items)>> ELSE <<>>)
EntryRecords(e) ==
    (IF e.parsingErrors.items # <<>>
     THEN <<ParsingErrorRecord(e.parsingErrors.items)>> ELSE <<>>)
    \o [i \in 1..Len(e.failedChecks.items) |-> FailedCheckRecord(e.failedChecks.items[i])]

RECURSIVE ExtractFrom(_, _)
\* The generator of extract_failures from entry i on: the records it yields
\* and the exception that ends it ("none" when it is exhausted).  A
\* non-object entry is skipped; a "results" that is no object has no get.
ExtractFrom(entries, i) ==
    IF i > Len(entries) THEN [records |-> <<>>, raised |-> "none"]
    ELSE LET e == entries[i]
         IN IF e.kind # "dict" THEN ExtractFrom(entries, i + 1)
            ELSE IF e.results = "nondict"
                 THEN [records |-> <<>>, raised |-> "AttributeError"]
            ELSE LET rest == ExtractFrom(entries, i + 1)
                 IN [records |-> EntryRecords(e) \o rest.records,
                     raised |-> rest.raised]

extract_failures(scan_results) == ExtractFrom(scan_results.result.items, 1)

\* f"{check_details.get(key) or 'None'}"
RenderValue(check, key) ==
    IF check.fields[key] \in {"absent", ""} THEN "None" ELSE check.fields[key]

\* the comma-joined details string, as its label=value pairs in order
DetailsOmitMissing(check) ==
    LET present == SelectSeq(FieldKeys, LAMBDA k : check.fields[k] \notin {"absent", ""})
    IN [i \in 1..Len(present) |->
           [label |-> FIELD_MAPPING[present[i]], value |-> check.fields[present[i]]]]
Details(check) ==
    [i \in 1..Len(FieldKeys) |->
        [label |-> FIELD_MAPPING[FieldKeys[i]], value |-> RenderValue(check, FieldKeys[i])]]

\* a printed line: ERROR_PREFIX, then the path list or the details
ParsingErrorLine(paths) ==
    [prefix |-> "::error::", kind |-> "parsing_error", paths |-> paths, pairs |-> <<>>]
FailedCheckLine(check) ==
    [prefix |-> "::error::", kind |-> "failed_check", paths |-> <<>>, pairs |-> Details(check)]

\* has_failures after one more record of the given type was taken
MarkFailedChecksOnly(flag, record) == flag \/ record.type = "failed_check"
MarkFailure(flag, record) == TRUE

RECURSIVE ReportFrom(_, _, _)
\* The for loop of report_failures over the generator gen from record i on,
\* with the lines printed and the flag so far.  A failed check that is no
\* object has no get: the loop ends there with the exception.
ReportFrom(gen, i, acc) ==
    IF i > Len(gen.records)
    THEN [acc EXCEPT !.raised = gen.raised]
    ELSE LET r == gen.records[i]
             taken == [acc EXCEPT !.consumed = acc.consumed + 1,
                                  !.has_failures = MarkFailure(acc.has_failures, r)]
         IN IF r.type = "parsing_error"
            THEN ReportFrom(gen, i + 1,
                     [taken EXCEPT !.lines = Append(taken.lines, ParsingErrorLine(r.paths))])
            ELSE IF r.check.kind # "dict"
                 THEN [taken EXCEPT !.raised = "AttributeError"]
            ELSE ReportFrom(gen, i + 1,
                     [taken EXCEPT !.lines = Append(taken.lines, FailedCheckLine(r.check))])

report_failures(gen) ==
    ReportFrom(gen, 1, [lines |-> <<>>, consumed |-> 0, has_failures |-> FALSE,
                        raised |-> "none"])

NoGenerator == [records |-> <<>>, raised |-> "none"]

ParserInit ==
    /\ p_pc = "load"
    /\ input_file \in InputFiles
    /\ scan_data = [ok |-> FALSE, value |-> NoJson]
    /\ failure_generator = NoGenerator
    /\ lines = <<>>
    /\ consumed = 0
    /\ has_failures = FALSE
    /\ raised = "none"
    /\ parser_exit = -1
    /\ pc = "idle"
    /\ template_dir = [exists |-> FALSE, files |-> {}]
    /\ template_files = {}
    /\ zip_file_path = "none"
    /\ zip_file = "absent"
    /\ zip_entries = {}
    /\ custom_ca_bundle = "unset"
    /\ session_ca = "none"
    /\ scan_uuid = "none"
    /\ interval = 1
    /\ timeout = 0
    /\ elapsed = 0
    /\ poll_state = "Idle"
    /\ checks = 0
    /\ nonterminal = 0
    /\ last_response = NoResponse
    /\ late_check = FALSE
    /\ results = NoData
    /\ results_json = NoResultsFile
    /\ results_sarif = "absent"
    /\ error = "none"
    /\ exit_code = -1
    /\ stages = <<>>
    /\ upload_call = NoUpload
    /\ sarif_call = NoSarifCall

\* main, line 138: scan_data = load_scan_data(args.file_path)
main_load ==
    /\ p_pc = "load"
    /\ scan_data' = load_scan_data(input_file)
    /\ p_pc' = "check"
    /\ UNCHANGED <<input_file, failure_generator, lines, consumed, has_failures, raised,
                   parser_exit>>
    /\ UNCHANGED wfVars

\* the test of the payload's status in main
StatusIgnored(data) == FALSE
StatusNotFinished(data) == data.value.status # "FINISHED"

\* main, lines 139-144: return 1 on a falsy scan_data or a status other than
\* FINISHED; a truthy scan_data that is no object has no get
main_check ==
    /\ p_pc = "check"
    /\ IF ~Truthy(scan_data)
       THEN /\ parser_exit' = 1
            /\ p_pc' = "done"
            /\ raised' = raised
       ELSE IF scan_data.value.kind # "dict"
       THEN /\ raised' = "AttributeError"
            /\ parser_exit' = 1
            /\ p_pc' = "done"
       ELSE IF StatusNotFinished(scan_data)
       THEN /\ parser_exit' = 1
            /\ p_pc' = "done"
            /\ raised' = raised
       ELSE /\ p_pc' = "extract"
            /\ UNCHANGED <<parser_exit, raised>>
    /\ UNCHANGED <<input_file, scan_data, failure_generator, lines, consumed,
                   has_failures>>
    /\ UNCHANGED wfVars

\* main, line 146: the generator over the payload
main_extract ==
    /\ p_pc = "extract"
    /\ failure_generator' = extract_failures(scan_data.value)
    /\ p_pc' = "report"
    /\ UNCHANGED <<input_file, scan_data, lines, consumed, has_failures, raised,
                   parser_exit>>
    /\ UNCHANGED wfVars

\* main, line 147: report_failures drains the generator; an exception that
\* escapes ends the process with a traceback and exit status 1
main_report ==
    /\ p_pc = "report"
    /\ LET r == report_failures(failure_generator)
       IN /\ lines' = r.lines
          /\ consumed' = r.consumed
          /\ has_failures' = r.has_failures
          /\ raised' = r.raised
          /\ IF r.raised # "none"
             THEN /\ parser_exit' = 1
                  /\ p_pc' = "done"
             ELSE /\ p_pc' = "verdict"
                  /\ UNCHANGED parser_exit
    /\ UNCHANGED <<input_file, scan_data, failure_generator>>
    /\ UNCHANGED wfVars

\* main, lines 149-154
main_verdict ==
    /\ p_pc = "verdict"
    /\ parser_exit' = IF has_failures THEN 1 ELSE 0
    /\ p_pc' = "done"
    /\ UNCHANGED <<input_file, scan_data, failure_generator, lines, consumed,
                   has_failures, raised>>
    /\ UNCHANGED wfVars

ParserNext ==
    \/ main_load
    \/ main_check
    \/ main_extract
    \/ main_report
    \/ main_verdict

ParserSpec == ParserInit /\ [][ParserNext]_vars


\* ============================================================ properties
\* ---------------------------------------------------------------- Spec

PollEnded == poll_state \in {"Finished", "TimedOut", "Failed", "SleepError"}
LastFinished == last_response.kind = "ok" /\ last_response.data.status = "FINISHED"
LastFailed == last_response.kind \in {"network_failure", "http_error"}

\* C1: when the status source answers a non-terminal status N times and then
\* FINISHED, and the checks start inside the timeout budget, poll_scan_results
\* performs exactly N+1 status checks and returns the payload of the last one:
\* while it polls every answer so far was non-terminal, a FINISHED answer ends
\* it at once, and it ends Finished only so.
C1_FinishedAfterNPlusOneChecks ==
    /\ poll_state = "Polling" => checks = nonterminal
    /\ LastFinished => poll_state = "Finished"
    /\ poll_state = "Finished" =>
          /\ LastFinished
          /\ checks = nonterminal + 1
          /\ results = last_response.data
          /\ "poll" \in {stages[i] : i \in 1..Len(stages)}

C1_Witness ==
    /\ poll_state = "Finished"
    /\ nonterminal = 2
    /\ checks = 3
    /\ results.body = "b2"

\* C2: with a status source that never answers FINISHED (and never fails),
\* poll_scan_results ends TimedOut, raising TimeoutError, and only once the
\* elapsed time has reached the timeout; no status check is started at a
\* moment when the elapsed time is >= the timeout.
C2_TimeoutBoundary ==
    /\ ~late_check
    /\ poll_state = "TimedOut" =>
          /\ elapsed >= timeout
          /\ checks = nonterminal
          /\ error = "TimeoutError"
          /\ results = NoData
          /\ (pc = "done" => exit_code = 1)
    /\ (PollEnded /\ checks = nonterminal /\ interval >= 0) => poll_state = "TimedOut"

C2_Witness ==
    /\ poll_state = "TimedOut"
    /\ checks >= 2
    /\ elapsed >= timeout
    /\ pc = "done"

\* C3: a status check that fails (network failure or non-2xx answer) moves the
\* loop to Failed at that tick, the error reaches the caller, and no further
\* status check is made: the failed check is the last one.
C3_FailedCheckNotRetried ==
    /\ LastFailed =>
          /\ poll_state = "Failed"
          /\ error = "RequestException"
          /\ pc \in {"except", "finally", "done"}
          /\ results = NoData
          /\ (pc = "done" => exit_code = 1)
    /\ poll_state = "Failed" => (LastFailed /\ checks = nonterminal + 1)

C3_Witness ==
    /\ poll_state = "Failed"
    /\ nonterminal >= 1
    /\ pc = "done"
    /\ exit_code = 1

\* C4: once run_scan_workflow has ended, by whichever exit path, the temporary
\* archive of the run is not on disk.
C4_ArchiveRemoved == pc = "done" => zip_file = "absent"

C4_Witness ==
    /\ pc = "done"
    /\ zip_file_path = "set"
    /\ zip_entries # {}
    /\ error = "RequestException"
    /\ zip_file = "absent"

\* the stage log with the two result files' writes taken as one persist stage
Collapse(log) ==
    LET renamed == [i \in 1..Len(log) |->
                       IF log[i] \in {"persist_sarif", "persist_json"}
                       THEN "persist" ELSE log[i]]
        keep == {i \in 1..Len(log) : i = 1 \/ renamed[i] # renamed[i - 1]}
        pos(k) == CHOOSE i \in keep : Cardinality({j \in keep : j <= i}) = k
    IN [k \in 1..Cardinality(keep) |-> renamed[pos(k)]]

IsPrefix(a, b) == Len(a) <= Len(b) /\ SubSeq(b, 1, Len(a)) = a

Succeeded == pc = "done" /\ exit_code = 0 /\ template_files # {}

\* C6 as stated: a successful run performs locate, archive, upload, poll,
\* fetch, persist, extract, report, cleanup, in this order.
C6_StagesThroughExtractAndReport ==
    Succeeded =>
        Collapse(stages) = <<"locate", "archive", "upload", "poll", "fetch", "persist",
                             "extract", "report", "cleanup">>

WorkflowStages ==
    <<"locate", "archive", "upload", "poll", "fetch", "persist_sarif", "persist_json">>

\* C6, amended: the stages of one run of run_scan_workflow happen in the order
\* locate, archive, upload, poll, fetch, persist, cleanup; a successful run
\* performs every one of them, the payload and the SARIF text are both
\* fetched before either is persisted, and extract and report are no stages
\* of the run: cleanup follows persist.
C6_WorkflowStageOrder ==
    /\ \/ IsPrefix(stages, WorkflowStages)
       \/ /\ stages # <<>>
          /\ stages[Len(stages)] = "cleanup"
          /\ IsPrefix(SubSeq(stages, 1, Len(stages) - 1), WorkflowStages)
    /\ Succeeded =>
          Collapse(stages) = <<"locate", "archive", "upload", "poll", "fetch", "persist",
                               "cleanup">>
    /\ (results_sarif # "absent" \/ results_json.state # "absent") =>
          /\ poll_state = "Finished"
          /\ IsPrefix(<<"locate", "archive", "upload", "poll", "fetch">>, stages)
    /\ results_json.state = "written" => results_sarif # "absent"

C6_Witness ==
    /\ Succeeded
    /\ results_json.state = "written"
    /\ results_sarif = "sarif2"
    /\ Len(stages) = 8

\* ---------------------------------------------------------- ParserSpec

\* the input was read and parsed: the file is readable text and what follows
\* the preamble (or the whole text without one) is JSON
ReadAndParsed ==
    /\ input_file.state = "text"
    /\ input_file.wellformed
    /\ input_file.preamble \/ ~input_file.log

StatusFinished == input_file.value.kind = "dict" /\ input_file.value.status = "FINISHED"

\* C5: the result-parsing process exits with 0 exactly when the input was read
\* and parsed without an error, the payload's status is FINISHED and no
\* failure record was found; otherwise it exits with 1, and under a status
\* other than FINISHED it reports no failure line.
C5_ExitStatus ==
    p_pc = "done" =>
        /\ parser_exit \in {0, 1}
        /\ parser_exit = 0 <=>
              /\ ReadAndParsed
              /\ raised = "none"
              /\ StatusFinished
              /\ consumed = 0
              /\ lines = <<>>
        /\ (~ReadAndParsed \/ ~StatusFinished) => (lines = <<>> /\ consumed = 0)
        /\ lines # <<>> => parser_exit = 1

C5_Witness ==
    /\ p_pc = "done"
    /\ parser_exit = 1
    /\ ReadAndParsed
    /\ input_file.value.status = "RUNNING"
    /\ input_file.value.result.items # <<>>
    /\ lines = <<>>

\* the entries of the payload handed to extract_failures
Entries == scan_data.value.result.items

HasParsingErrors(e) ==
    e.kind = "dict" /\ e.results = "dict" /\ e.parsingErrors.present
    /\ e.parsingErrors.items # <<>>
ChecksOf(e) ==
    IF e.kind = "dict" /\ e.results = "dict" /\ e.failedChecks.present
    THEN e.failedChecks.items ELSE <<>>
RecordsOf(e) == (IF HasParsingErrors(e) THEN 1 ELSE 0) + Len(ChecksOf(e))

RECURSIVE Offset(_, _)
\* the number of records owed to the entries before entry i
Offset(entries, i) ==
    IF i <= 1 THEN 0 ELSE Offset(entries, i - 1) + RecordsOf(entries[i - 1])

RECURSIVE SumChecks(_, _)
SumChecks(entries, i) ==
    IF i = 0 THEN 0 ELSE SumChecks(entries, i - 1) + Len(ChecksOf(entries[i]))

\* C7: extract_failures visits the entries in payload order and yields, per
\* entry, one ParsingError record carrying the whole parsingErrors list when
\* that list is non-empty (none when it is empty or absent), then one
\* FailedCheck record per element of failedChecks in list order; the number of
\* records is (entries with non-empty parsingErrors) + (sum of failedChecks
\* lengths).  Stated for every payload the generator runs to exhaustion on.
C7_ExtractOrderAndCount ==
    (p_pc = "report" /\ failure_generator.raised = "none") =>
        LET recs == failure_generator.records
            n == Len(Entries)
        IN /\ Len(recs) = Offset(Entries, n + 1)
           /\ Len(recs) = Cardinality({i \in 1..n : HasParsingErrors(Entries[i])})
                          + SumChecks(Entries, n)
           /\ \A i \in 1..n :
                 LET base == Offset(Entries, i)
                     pe == IF HasParsingErrors(Entries[i]) THEN 1 ELSE 0
                 IN /\ pe = 1 =>
                          /\ recs[base + 1].type = "parsing_error"
                          /\ recs[base + 1].paths = Entries[i].parsingErrors.items
                    /\ \A k \in 1..Len(ChecksOf(Entries[i])) :
                          /\ recs[base + pe + k].type = "failed_check"
                          /\ recs[base + pe + k].check = ChecksOf(Entries[i])[k]

C7_Witness ==
    /\ p_pc = "report"
    /\ failure_generator.raised = "none"
    /\ Len(Entries) = 2
    /\ HasParsingErrors(Entries[1])
    /\ Len(ChecksOf(Entries[1])) = 1
    /\ Len(ChecksOf(Entries[2])) = 2
    /\ Len(failure_generator.records) = 4

RECURSIVE WellFormedRecords(_, _)
\* the records owed to the well-formed elements of the first i entries
WellFormedRecords(entries, i) ==
    IF i = 0 THEN 0
    ELSE WellFormedRecords(entries, i - 1)
         + (IF HasParsingErrors(entries[i]) THEN 1 ELSE 0)
         + Len(SelectSeq(ChecksOf(entries[i]), LAMBDA c : c.kind = "dict"))

\* C8: malformed elements never make extraction and reporting fail: on a
\* FINISHED payload the run raises nothing, skips the elements that are no
\* well-formed records and reports one line for each well-formed one.
C8_MalformedElementsSkipped ==
    (p_pc = "done" /\ Truthy(scan_data) /\ StatusFinished) =>
        /\ raised = "none"
        /\ Len(lines) = WellFormedRecords(Entries, Len(Entries))

\* C9: report_failures prints exactly one line per failure record it takes and
\* returns true exactly when it printed at least one line; for no records it
\* returns false and prints nothing.
C9_OneLinePerRecord ==
    p_pc = "verdict" =>
        /\ consumed = Len(failure_generator.records)
        /\ Len(lines) = consumed
        /\ has_failures <=> Len(lines) >= 1
        /\ failure_generator.records = <<>> => (~has_failures /\ lines = <<>>)

C9_Witness ==
    /\ p_pc = "verdict"
    /\ has_failures
    /\ Len(lines) = 2
    /\ \A i \in 1..Len(lines) : lines[i].kind = "parsing_error"

Labels == <<"File Name", "Qualys CID", "Control Name", "Criticality", "Remediation">>

\* C10: the line of every FailedCheck record carries all five label=value
\* pairs in the order File Name, Qualys CID, Control Name, Criticality,
\* Remediation, a field that is missing or empty being given the value None;
\* no field is omitted, whatever fields the check carries.
C10_FiveFieldsAlways ==
    \A i \in 1..Len(lines) :
        lines[i].kind = "failed_check" =>
            LET c == failure_generator.records[i].check
            IN /\ failure_generator.records[i].type = "failed_check"
               /\ lines[i].prefix = "::error::"
               /\ Len(lines[i].pairs) = 5
               /\ \A j \in 1..5 :
                     /\ lines[i].pairs[j].label = Labels[j]
                     /\ lines[i].pairs[j].value =
                           (IF c.fields[FieldKeys[j]] \in {"absent", ""}
                            THEN "None" ELSE c.fields[FieldKeys[j]])

C10_Witness ==
    /\ p_pc = "done"
    /\ parser_exit = 1
    /\ Len(lines) = 1
    /\ lines[1].kind = "failed_check"
    /\ lines[1].pairs[2] = [label |-> "Qualys CID", value |-> "CID-1"]
    /\ lines[1].pairs[4] = [label |-> "Criticality", value |-> "HIGH"]
    /\ lines[1].pairs[5] = [label |-> "Remediation", value |-> "None"]

\* the upload was answered by a non-2xx status or not at all
UploadTransportFailure == upload_call.response \in {"http_error", "network_failure"}

\* the upload was answered 2xx by a body without a usable scanUuid
UploadWithoutScanUuid == upload_call.response \in {"no_uuid", "empty_uuid"}

\* no status check and no SARIF fetch has been issued
NoScanTraffic ==
    /\ poll_state = "Idle"
    /\ checks = 0
    /\ sarif_call.fetches = 0
    /\ results_sarif = "absent"

\* C11: initiate_scan hands back a scan identifier only for a 2xx answer whose
\* body carries a non-empty scanUuid.  A non-2xx answer or a network failure
\* ends the upload in a transport error (requests.RequestException), a 2xx
\* answer without scan identifier in a protocol error (ValueError); after
\* either, the run issues no status check and no SARIF fetch.
C11_UploadOutcome ==
    /\ scan_uuid # "none" => (upload_call.response = "uuid" /\ scan_uuid = "uuid1")
    /\ upload_call.response = "uuid" => scan_uuid = "uuid1"
    /\ UploadTransportFailure =>
          (error = "RequestException" /\ scan_uuid = "none" /\ NoScanTraffic)
    /\ UploadWithoutScanUuid =>
          (error = "ValueError" /\ scan_uuid = "none" /\ NoScanTraffic)

C11_Witness ==
    /\ pc = "done"
    /\ upload_call.response = "empty_uuid"
    /\ error = "ValueError"
    /\ exit_code = 1

\* what a run has done so far, apart from ending
RunEffects ==
    <<template_files, zip_entries, session_ca, scan_uuid, poll_state, checks,
      upload_call, sarif_call, results, results_json, results_sarif, error>>

\* C12: every error raised in a stage of the workflow (bad directory, bad
\* trust bundle, archive write failure, transport failure, missing scanUuid,
\* poll timeout, result file write failure) is fatal: from the state in which
\* it was raised on, only the handler and the finally clause run, no later
\* stage has any effect, and the process ends with exit status 1; a run that
\* ends with status 0 raised no error.
C12_ErrorsAreFatal ==
    /\ [](/\ error # "none" => pc \in {"except", "finally", "done"}
          /\ (pc = "done" /\ error # "none") => exit_code = 1
          /\ exit_code = 0 => (error = "none" /\ pc = "done"))
    /\ [][error # "none" =>
             /\ UNCHANGED RunEffects
             /\ stages' \in {stages, Append(stages, "cleanup")}]_vars

C12_Witness ==
    /\ pc = "done"
    /\ error = "OSError"
    /\ results_json.state = "partial"
    /\ results_sarif # "absent"
    /\ exit_code = 1

\* C13 as stated: get_sarif_results changes no file and hands the raw SARIF
\* text back to its caller; results.sarif is written by the orchestrator
\* alone, from the returned text.
C13_SarifReturnedToCaller ==
    /\ sarif_call.returned \in {"none"} \cup SarifTexts
    /\ sarif_call.returned # "none" => sarif_call.returned = sarif_call.text
    /\ results_sarif # "absent" =>
          (sarif_call.writer = "run_scan_workflow" /\ results_sarif = sarif_call.returned)

\* C13: get_sarif_results, when its GET succeeds, writes the response text
\* unchanged to results.sarif itself and returns None; run_scan_workflow
\* never writes results.sarif, and the file exists only after such a call.
C13_SarifWrittenByClient ==
    /\ sarif_call.returned \in {"none", "None"}
    /\ sarif_call.writer \in {"none", "get_sarif_results"}
    /\ sarif_call.returned = "None" =>
          /\ sarif_call.text \in SarifTexts
          /\ results_sarif = sarif_call.text
          /\ sarif_call.writer = "get_sarif_results"
    /\ results_sarif # "absent" =>
          (sarif_call.returned = "None" /\ poll_state = "Finished")

C13_Witness ==
    /\ pc = "done"
    /\ exit_code = 0
    /\ sarif_call.returned = "None"
    /\ sarif_call.writer = "get_sarif_results"
    /\ results_sarif = "sarif2"

\* C14: a poll invoked with interval <= 0 ends in a configuration error and
\* never issues a second status check without having waited since the first.
C14_NonPositiveIntervalRejected ==
    (interval <= 0 /\ poll_state # "Idle") =>
        /\ checks <= 1
        /\ PollEnded => error = "ValueError"

\* the set of the elements of a sequence
Range(seq) == {seq[i] : i \in 1..Len(seq)}

\* C15: the upload starts only once create_zip_archive has returned, with
\* every selected file written and the archive closed; an archive whose
\* creation failed (not opened, or left partial) is never uploaded.
C15_UploadAfterCompleteArchive ==
    /\ pc = "upload" => (zip_file = "complete" /\ zip_entries = template_files)
    /\ upload_call # NoUpload =>
          /\ upload_call.archive = "complete"
          /\ upload_call.entries = template_files
          /\ "archive" \in Range(stages)
    /\ "archive" \notin Range(stages) => (upload_call = NoUpload /\ scan_uuid = "none")
    /\ (zip_file = "partial" \/ (zip_file_path = "set" /\ zip_entries # template_files)) =>
          (upload_call = NoUpload /\ error \in {"OSError", "KeyboardInterrupt"})

C15_Witness ==
    /\ pc = "done"
    /\ zip_file_path = "set"
    /\ zip_entries # template_files
    /\ error = "OSError"
    /\ upload_call = NoUpload

\* the latest status answer was a 2xx whose status is not FINISHED
LastNonTerminal == last_response.kind = "ok" /\ last_response.data.status # "FINISHED"

\* C16: the poll loop reaches Finished only on an answer whose status equals
\* FINISHED, and what it returns is that answer, so every returned payload
\* has status FINISHED.  Any other status, an unrecognized one (ERROR) and a
\* missing status field included, is non-terminal: it returns nothing, sends
\* the loop to sleep and (for an interval the sleep accepts) leaves it
\* Polling until the timeout test ends it.
C16_OnlyFinishedIsTerminal ==
    /\ poll_state = "Finished" =>
          (LastFinished /\ results = last_response.data /\ results.status = "FINISHED")
    /\ results # NoData => results.status = "FINISHED"
    /\ LastNonTerminal =>
          /\ poll_state \in {"Polling", "TimedOut", "SleepError"}
          /\ results = NoData
          /\ nonterminal = checks
          /\ interval >= 0 => poll_state \in {"Polling", "TimedOut"}
          /\ poll_state = "SleepError" => interval < 0

C16_Witness ==
    /\ poll_state = "Polling"
    /\ checks = 2
    /\ last_response.kind = "ok"
    /\ last_response.data.status = "absent"
    /\ results = NoData

\* a bundle path was given, and it names no file or no loadable bundle
BadBundle == custom_ca_bundle \in {"missing", "malformed"}

\* no bundle path was given (None, or the empty string of an unset variable)
NoBundle == custom_ca_bundle \in {"unset", "empty"}

\* C17: when a custom CA bundle path is given and the file is missing or
\* cannot be loaded, constructing the client fails (FileNotFoundError,
\* ssl.SSLError): the run never gets past the construction and no upload,
\* status check or SARIF fetch is made.  A given path is never ignored: the
\* session trusts the default store only when no path was given, and the
\* custom bundle exactly when a loadable one was.
C17_BadBundleFailsConstruction ==
    /\ BadBundle =>
          /\ session_ca = "none"
          /\ pc \in {"locate", "archive", "client", "except", "finally", "done"}
          /\ upload_call = NoUpload
          /\ NoScanTraffic
          /\ (pc = "done" /\ "archive" \in Range(stages)) =>
                (exit_code = 1 /\
                 error \in {"FileNotFoundError", "SSLError", "KeyboardInterrupt"})
    /\ session_ca = "default" => NoBundle
    /\ session_ca = "custom" => custom_ca_bundle = "valid"
    /\ (session_ca = "none" /\ error \in {"FileNotFoundError", "SSLError"}
            /\ "archive" \in Range(stages)) => BadBundle

C17_Witness ==
    /\ pc = "done"
    /\ custom_ca_bundle = "malformed"
    /\ error = "SSLError"
    /\ "archive" \in Range(stages)
    /\ exit_code = 1
    /\ upload_call = NoUpload

\* The rule of C18 applied by hand to every file name of the model: the
\* names whose extension is, up to case, one of .tf .json .yaml .yml
\* .template and that contain, up to case, one of the tokens main, infra,
\* template, cloudformation, terraform, cdk, stack.
\*   main.tf, Infra.YAML, MAIN.TF, domain.tf (do-main), cdk.yml,
\*   CloudFormation.JSON, app.template (the token sits in the extension)
\* and not
\*   readme.md, terraform.txt, main.tf.bak (extension), template (none),
\*   output.json, vars.tf (no token)
SelectedByRule ==
    {MainTf, InfraYaml, MainTfUpper, DomainTf, CdkYml, CloudFormationJson, AppTemplate}

ExpectedTemplates == template_dir.files \cap SelectedByRule

\* C18: find_iac_templates returns exactly the files of the directory that
\* the rule selects, and the entries of the archive the run creates and
\* uploads are exactly those files.
C18_SelectionRule ==
    /\ "locate" \in Range(stages) => template_files = ExpectedTemplates
    /\ "archive" \in Range(stages) => zip_entries = ExpectedTemplates
    /\ upload_call # NoUpload =>
          (upload_call.archive = "complete" /\ upload_call.entries = ExpectedTemplates)

C18_Witness ==
    /\ template_dir.files = {MainTfUpper, TerraformTxt, AppTemplate, TemplateNoExt, VarsTf}
    /\ upload_call.response = "uuid"
    /\ upload_call.entries = {MainTfUpper, AppTemplate}

\* C19: results.json is written only after the poll loop of the run has
\* returned a payload whose status is FINISHED and get_sarif_results has
\* succeeded, and a completed write holds exactly that payload.  A run that
\* has not got a payload from the poll loop (it failed in locate, archive,
\* client construction, upload or polling, timeout included) has written
\* neither results.json nor results.sarif.
C19_ResultsAfterFinishedPoll ==
    /\ results_json # NoResultsFile =>
          /\ poll_state = "Finished"
          /\ results.status = "FINISHED"
          /\ sarif_call.returned = "None"
          /\ results_sarif = sarif_call.text
    /\ results_json.state = "written" =>
          (results_json.data = results /\ results_json.data = last_response.data)
    /\ "poll" \notin Range(stages) =>
          (results_json = NoResultsFile /\ results_sarif = "absent")
    /\ (error # "none" /\ poll_state # "Finished") =>
          (results_json = NoResultsFile /\ results_sarif = "absent")
    /\ sarif_call.returned # "None" => results_json = NoResultsFile

C19_Witness ==
    /\ pc = "done"
    /\ exit_code = 0
    /\ checks = 2
    /\ results_json.state = "written"
    /\ results_json.data = [status |-> "FINISHED", body |-> "b2"]
    /\ results_sarif = "sarif1"

\* C20: when find_iac_templates returns an empty list, run_scan_workflow
\* returns normally: no archive path is assigned and no archive created, no
\* client is built, no upload, status check or SARIF fetch is made, no
\* result file is written, no error is raised and the exit status is 0.
C20_EmptyDiscoveryEndsNormally ==
    ("locate" \in Range(stages) /\ template_files = {}) =>
        /\ pc \in {"finally", "done"}
        /\ zip_file_path = "none"
        /\ zip_file = "absent"
        /\ zip_entries = {}
        /\ session_ca = "none"
        /\ upload_call = NoUpload
        /\ scan_uuid = "none"
        /\ NoScanTraffic
        /\ results_json = NoResultsFile
        /\ error = "none"
        /\ exit_code \in {-1, 0}
        /\ pc = "done" => (exit_code = 0 /\ stages = <<"locate", "cleanup">>)

C20_Witness ==
    /\ pc = "done"
    /\ template_dir.files = {ReadmeMd, OutputJson}
    /\ template_files = {}
    /\ custom_ca_bundle = "missing"
    /\ exit_code = 0

\* ceil(a / b) for b > 0
Ceil(a, b) == (a + b - 1) \div b

\* seconds the status requests themselves have taken so far: the time elapsed
\* less the time slept
RequestTime == elapsed - nonterminal * interval

\* the three ways poll_scan_results ends: return, TimeoutError, a failed GET
PollOutcomes == {"Finished", "TimedOut", "Failed"}

\* C21: for every interval > 0 and every timeout, whatever the status source
\* answers, a poll loop that is Polling eventually leaves Polling (unless
\* the process is interrupted from outside), it ends in one of Finished,
\* TimedOut, Failed and stays there, and as long as only time.sleep has
\* advanced the clock it has issued at most ceil(timeout / interval) status
\* checks.
C21_PollTerminates ==
    /\ [](interval > 0 =>
            /\ poll_state \in {"Idle", "Polling"} \cup PollOutcomes
            /\ RequestTime = 0 => checks <= Ceil(timeout, interval))
    /\ [][(interval > 0 /\ poll_state \in PollOutcomes) => poll_state' = poll_state]_vars
    /\ ((interval > 0 /\ poll_state = "Polling")
           ~> (poll_state \in PollOutcomes \/ error = "KeyboardInterrupt"))

C21_Witness ==
    /\ poll_state = "TimedOut"
    /\ interval = 1
    /\ timeout = MaxTimeout
    /\ RequestTime = 0
    /\ checks = Ceil(timeout, interval)
    /\ error = "TimeoutError"

====
